---- MODULE Spec2Model ----
(***************************************************************************)
(* Model of scripts/convert-sheets-to-markdown.py: the ProgressBar console *)
(* reporter (update / simulate_progress / wait_for_fake_progress and the   *)
(* fake_progress_worker thread it starts) and the main() pipeline driving  *)
(* it.  The source takes no lock, so every read and write of the shared    *)
(* attributes (current_step, progress, _stop_fake_progress) is its own     *)
(* step and the foreground and the worker interleave between them.         *)
(* The string functions of the script (the file name made of the naming    *)
(* model's response, the annotation of one cell) are applied step by step  *)
(* to bounded inputs in SpecName and SpecCell.                              *)
(***************************************************************************)
EXTENDS Integers, Sequences, FiniteSets, TLC

\* ---------------------------------------------------------------- bounds
\* Number of reporter calls the client of Spec issues.
MaxCalls == 3
\* Number of reporter calls the client of FairSpec issues.
MaxLiveCalls == 2
\* Largest `until` the client of Spec passes to simulate_progress.
MaxUntil == 3

\* Step descriptions, percents and simulation ranges the client of Spec uses.
StepNames == <<"A", "B", "C">>
Steps == {StepNames[i] : i \in 1 .. Len(StepNames)}
Percents == {-5, 50, 150}
StartFroms == {0}
Untils == {MaxUntil}
\* random.uniform(0.5, 2) on the integer grid of the model.
Incs == {1, 2}

VARIABLES
    current_step,        \* self.current_step
    progress,            \* self.progress
    stop_fake_progress,  \* self._stop_fake_progress
    is_running_fake,     \* self._is_running_fake
    current_thread,      \* self._current_thread: 0 is None, else index in threads
    step_printed,        \* self._step_printed
    threads,             \* every threading.Thread started so far
    fg,                  \* the reporter call the foreground is executing
    fgstack,             \* the foreground's stack of update() frames
    calls,               \* reporter calls issued by the client of Spec
    out,                 \* the last write to sys.stdout
    wrote100,            \* history: steps a bar showing 100 was written for
                         \*   since the running simulation was set up
    touched,             \* history: the client's last call and the step it named
    main,                \* main(): its position, its local variables, and
                         \*   history: name_source (who made file_name), path
                         \*   (the name given to open), note (the message main
                         \*   printed), cause (the phase that raised), remote
                         \*   (the remote requests made; those made before the
                         \*   metadata record are dropped once it is accepted),
                         \*   status (exit status)
    fn,                  \* the locals of the string function under study
    run                  \* run.py: its position, the two scripts it starts

vars == <<current_step, progress, stop_fake_progress, is_running_fake,
          current_thread, step_printed, threads, fg, fgstack, calls, out,
          wrote100, touched, main, fn, run>>

\* ------------------------------------------------------------- ProgressBar
\* The call the foreground is in.  active and joined are history: the step
\* of the worker alive when simulate_progress was called, and whether the
\* call (or the wait_for_fake_progress that has just returned) went through
\* join().
Idle ==
    [op |-> "idle", pc |-> "", step |-> "", start_from |-> 0, until |-> 0,
     active |-> "", joined |-> FALSE]

DeadThread ==
    [alive |-> FALSE, pc |-> "dead", step |-> "", cur |-> 0, until |-> 0,
     stack |-> <<>>, after_join |-> FALSE]

\* One activation of update(step, progress): given is "progress is not None".
\* force is history: "none", or what became of the call of line 92 ("due" when
\* line 91 held, then "shown100" or "shownless" by the percent its bar showed).
Frame(step, given, p) ==
    [step |-> step, given |-> given, p |-> p, pc |-> "cmp", force |-> "none"]

Min(a, b) == IF a < b THEN a ELSE b
Max(a, b) == IF a > b THEN a ELSE b
ClampNoFloor(p) == Min(100, p)
Clamp(p) == Min(100, Max(0, p))

\* Thread 0 is the foreground; t >= 1 is threads[t].
Tids == 0 .. Len(threads)
Workers == 1 .. Len(threads)
IsAlive(t) == t \in Workers /\ threads[t].alive
Stack(t) == IF t = 0 THEN fgstack ELSE threads[t].stack
Top(t) == Stack(t)[Len(Stack(t))]
InUpdate(t, pc) ==
    /\ IF t = 0 THEN TRUE ELSE threads[t].alive
    /\ Stack(t) # <<>>
    /\ Top(t).pc = pc

SetStack(t, ns) ==
    IF t = 0
    THEN fgstack' = ns /\ threads' = threads
    ELSE threads' = [threads EXCEPT ![t].stack = ns] /\ fgstack' = fgstack

Goto(t, pc) ==
    /\ SetStack(t, [Stack(t) EXCEPT ![Len(Stack(t))].pc = pc])
    /\ fg' = fg

\* update() returns: the frame is popped; a foreground update call is over.
Return(t) ==
    LET ns == SubSeq(Stack(t), 1, Len(Stack(t)) - 1) IN
    /\ SetStack(t, ns)
    /\ fg' = IF t = 0 /\ ns = <<>> /\ fg.op = "update" THEN Idle ELSE fg

\* ProgressBar() at line 526, and main not yet started
Constructed ==
    /\ current_step = ""
    /\ progress = 0
    /\ stop_fake_progress = FALSE
    /\ is_running_fake = FALSE
    /\ current_thread = 0
    /\ step_printed = FALSE
    /\ threads = <<>>
    /\ fg = Idle
    /\ fgstack = <<>>
    /\ calls = 0
    /\ out = [t |-> 0, kind |-> "none", step |-> "", pct |-> 0]
    /\ wrote100 = {}
    /\ touched = [op |-> "none", step |-> "", full |-> FALSE, named |-> 0]
    /\ main = [pc |-> "start", creds |-> "none", sheet_data |-> "unset",
               gemini |-> "uncalled", file_name |-> <<>>, name_source |-> "none",
               output |-> "none", path |-> <<>>, note |-> "", cause |-> "",
               remote |-> {}, status |-> -1]

\* No string function is under study.
NoFn == [op |-> "none"]

\* run.py is not under study.
NoRun == [pc |-> "none"]

Init == Constructed /\ fn = NoFn /\ run = NoRun

\* line 90: if step != self.current_step
UpdCmp(t) ==
    /\ InUpdate(t, "cmp")
    /\ Goto(t, IF Top(t).step # current_step THEN "chk" ELSE "prog")
    /\ UNCHANGED <<current_step, progress, stop_fake_progress, is_running_fake,
                   current_thread, step_printed, calls, out, wrote100, touched, main, fn, run>>

\* line 91: if self.current_step and self.progress < 100
UpdChk(t) ==
    /\ InUpdate(t, "chk")
    /\ IF current_step # "" /\ progress < 100
       THEN SetStack(t, [Stack(t) EXCEPT ![Len(Stack(t))].pc = "call",
                                         ![Len(Stack(t))].force = "due"])
       ELSE SetStack(t, [Stack(t) EXCEPT ![Len(Stack(t))].pc = "hdr"])
    /\ fg' = fg
    /\ UNCHANGED <<current_step, progress, stop_fake_progress, is_running_fake,
                   current_thread, step_printed, calls, out, wrote100, touched, main, fn, run>>

\* line 92: self.update(self.current_step, 100)
UpdCall(t) ==
    /\ InUpdate(t, "call")
    /\ SetStack(t, Append([Stack(t) EXCEPT ![Len(Stack(t))].pc = "hdr"],
                          Frame(current_step, TRUE, 100)))
    /\ fg' = fg
    /\ UNCHANGED <<current_step, progress, stop_fake_progress, is_running_fake,
                   current_thread, step_printed, calls, out, wrote100, touched, main, fn, run>>

\* line 93: sys.stdout.write(f"\n==> {step}\n")
UpdHdr(t) ==
    /\ InUpdate(t, "hdr")
    /\ out' = [t |-> t, kind |-> "header", step |-> Top(t).step, pct |-> 0]
    /\ Goto(t, "setstep")
    /\ UNCHANGED <<current_step, progress, stop_fake_progress, is_running_fake,
                   current_thread, step_printed, calls, wrote100, touched, main, fn, run>>

\* line 94: self.current_step = step
UpdSetStep(t) ==
    /\ InUpdate(t, "setstep")
    /\ current_step' = Top(t).step
    /\ Goto(t, "reset")
    /\ UNCHANGED <<progress, stop_fake_progress, is_running_fake,
                   current_thread, step_printed, calls, out, wrote100, touched, main, fn, run>>

\* lines 95-96: self.progress = 0; self._step_printed = True
UpdReset(t) ==
    /\ InUpdate(t, "reset")
    /\ progress' = 0
    /\ step_printed' = TRUE
    /\ Goto(t, "prog")
    /\ UNCHANGED <<current_step, stop_fake_progress, is_running_fake,
                   current_thread, calls, out, wrote100, touched, main, fn, run>>

\* lines 98-99: if progress is not None: self.progress = min(100, max(0, progress))
UpdProg(t) ==
    /\ InUpdate(t, "prog")
    /\ IF Top(t).given
       THEN progress' = Clamp(Top(t).p) /\ Goto(t, "bar")
       ELSE progress' = progress /\ Return(t)
    /\ UNCHANGED <<current_step, stop_fake_progress, is_running_fake,
                   current_thread, step_printed, calls, out, wrote100, touched, main, fn, run>>

\* lines 100-104: the bar is drawn from self.progress as it is read now
UpdBar(t) ==
    /\ InUpdate(t, "bar")
    /\ out' = [t |-> t, kind |-> "bar", step |-> Top(t).step, pct |-> progress]
    /\ wrote100' = IF progress = 100 THEN wrote100 \cup {Top(t).step} ELSE wrote100
    /\ LET n == Len(Stack(t))
           shown == IF progress = 100 THEN "shown100" ELSE "shownless" IN
       SetStack(t, IF n >= 2
                   THEN [Stack(t) EXCEPT ![n].pc = "fin", ![n - 1].force = shown]
                   ELSE [Stack(t) EXCEPT ![n].pc = "fin"])
    /\ fg' = fg
    /\ UNCHANGED <<current_step, progress, stop_fake_progress, is_running_fake,
                   current_thread, step_printed, calls, touched, main, fn, run>>

\* lines 106-109: if self.progress == 100: ... self._stop_fake_progress = True
UpdFin(t) ==
    /\ InUpdate(t, "fin")
    /\ stop_fake_progress' = IF progress = 100 THEN TRUE ELSE stop_fake_progress
    /\ Return(t)
    /\ UNCHANGED <<current_step, progress, is_running_fake,
                   current_thread, step_printed, calls, out, wrote100, touched, main, fn, run>>

UpdateStep(t) ==
    \/ UpdCmp(t)
    \/ UpdChk(t)
    \/ UpdCall(t)
    \/ UpdHdr(t)
    \/ UpdSetStep(t)
    \/ UpdReset(t)
    \/ UpdProg(t)
    \/ UpdBar(t)
    \/ UpdFin(t)

\* ------------------------------------------------------ fake_progress_worker
AtWorker(t, pc) ==
    /\ t \in Workers
    /\ threads[t].alive
    /\ threads[t].stack = <<>>
    /\ threads[t].pc = pc

\* line 130: while not self._stop_fake_progress and current_progress < until
WorkerLoop(t) ==
    /\ AtWorker(t, "loop")
    /\ threads' = [threads EXCEPT ![t].pc =
           IF ~stop_fake_progress /\ threads[t].cur < threads[t].until
           THEN "sleep" ELSE "exit"]
    /\ UNCHANGED <<current_step, progress, stop_fake_progress, is_running_fake,
                   current_thread, step_printed, fg, fgstack, calls, out, wrote100, touched, main, fn, run>>

WorkerTickStuck(t) ==
    /\ AtWorker(t, "sleep")
    /\ threads' = [threads EXCEPT
           ![t].pc = "loop",
           ![t].stack = IF stop_fake_progress THEN <<>>
                        ELSE <<Frame(threads[t].step, TRUE, threads[t].cur)>>]
    /\ UNCHANGED <<current_step, progress, stop_fake_progress, is_running_fake,
                   current_thread, step_printed, fg, fgstack, calls, out,
                   wrote100, touched, main, fn, run>>

\* lines 131-134: time.sleep(...); if not self._stop_fake_progress:
\*     current_progress += random.uniform(0.5, 2); self.update(step, current_progress)
WorkerTick(t) ==
    /\ AtWorker(t, "sleep")
    /\ IF stop_fake_progress
       THEN threads' = [threads EXCEPT ![t].pc = "loop"]
       ELSE \E inc \in Incs :
              threads' = [threads EXCEPT
                  ![t].pc = "loop",
                  ![t].cur = @ + inc,
                  ![t].stack = <<Frame(threads[t].step, TRUE, threads[t].cur + inc)>>]
    /\ UNCHANGED <<current_step, progress, stop_fake_progress, is_running_fake,
                   current_thread, step_printed, fg, fgstack, calls, out, wrote100, touched, main, fn, run>>

\* line 135: self._is_running_fake = False, and the thread ends
WorkerExit(t) ==
    /\ AtWorker(t, "exit")
    /\ is_running_fake' = FALSE
    /\ threads' = [threads EXCEPT ![t] = DeadThread]
    /\ UNCHANGED <<current_step, progress, stop_fake_progress,
                   current_thread, step_printed, fg, fgstack, calls, out, wrote100, touched, main, fn, run>>

WorkerStep(t) ==
    \/ WorkerLoop(t)
    \/ WorkerTick(t)
    \/ WorkerExit(t)

\* --------------------------------------------------------- simulate_progress
AtFg(op, pc) == fg.op = op /\ fg.pc = pc /\ fgstack = <<>>

\* line 120: if self._current_thread and self._current_thread.is_alive()
SimAlive ==
    /\ AtFg("simulate", "alive")
    /\ fg' = [fg EXCEPT !.pc = IF IsAlive(current_thread) THEN "stop" ELSE "clear"]
    /\ UNCHANGED <<current_step, progress, stop_fake_progress, is_running_fake,
                   current_thread, step_printed, threads, fgstack, calls, out, wrote100, touched, main, fn, run>>

\* line 121: self._stop_fake_progress = True
SimStop ==
    /\ AtFg("simulate", "stop")
    /\ stop_fake_progress' = TRUE
    /\ fg' = [fg EXCEPT !.pc = "join", !.joined = TRUE]
    /\ UNCHANGED <<current_step, progress, is_running_fake,
                   current_thread, step_printed, threads, fgstack, calls, out, wrote100, touched, main, fn, run>>

SimJoinNoWait ==
    /\ AtFg("simulate", "join")
    /\ fg' = [fg EXCEPT !.pc = "clear"]
    /\ UNCHANGED <<current_step, progress, stop_fake_progress, is_running_fake,
                   current_thread, step_printed, threads, fgstack, calls, out,
                   wrote100, touched, main, fn, run>>

\* line 122: self._current_thread.join()
SimJoin ==
    /\ AtFg("simulate", "join")
    /\ ~IsAlive(current_thread)
    /\ fg' = [fg EXCEPT !.pc = "clear"]
    /\ UNCHANGED <<current_step, progress, stop_fake_progress, is_running_fake,
                   current_thread, step_printed, threads, fgstack, calls, out, wrote100, touched, main, fn, run>>

\* lines 124-126: the flags are set and self.update(step, start_from) is called
SimClear ==
    /\ AtFg("simulate", "clear")
    /\ stop_fake_progress' = FALSE
    /\ is_running_fake' = TRUE
    /\ fgstack' = <<Frame(fg.step, TRUE, fg.start_from)>>
    /\ fg' = [fg EXCEPT !.pc = "start"]
    /\ UNCHANGED <<current_step, progress,
                   current_thread, step_printed, threads, calls, out, wrote100, touched, main, fn, run>>

\* lines 137-139: the worker thread is created and started
SimStart ==
    /\ AtFg("simulate", "start")
    /\ threads' = Append(threads,
           [alive |-> TRUE, pc |-> "loop", step |-> fg.step,
            cur |-> fg.start_from, until |-> fg.until, stack |-> <<>>,
            after_join |-> fg.joined])
    /\ current_thread' = Len(threads) + 1
    /\ fg' = Idle
    /\ wrote100' = wrote100 \cap {fg.step}
    /\ UNCHANGED <<current_step, progress, stop_fake_progress, is_running_fake,
                   step_printed, fgstack, calls, out, touched, main, fn, run>>

\* ---------------------------------------------------- wait_for_fake_progress
\* line 143: if self._current_thread and self._current_thread.is_alive()
WaitAlive ==
    /\ AtFg("wait", "alive")
    /\ fg' = IF IsAlive(current_thread) THEN [fg EXCEPT !.pc = "join"] ELSE Idle
    /\ UNCHANGED <<current_step, progress, stop_fake_progress, is_running_fake,
                   current_thread, step_printed, threads, fgstack, calls, out, wrote100, touched, main, fn, run>>

WaitJoinNoWait ==
    /\ AtFg("wait", "join")
    /\ fg' = [Idle EXCEPT !.joined = TRUE]
    /\ UNCHANGED <<current_step, progress, stop_fake_progress, is_running_fake,
                   current_thread, step_printed, threads, fgstack, calls, out,
                   wrote100, touched, main, fn, run>>

\* line 144: self._current_thread.join()
WaitJoin ==
    /\ AtFg("wait", "join")
    /\ ~IsAlive(current_thread)
    /\ fg' = [Idle EXCEPT !.joined = TRUE]
    /\ UNCHANGED <<current_step, progress, stop_fake_progress, is_running_fake,
                   current_thread, step_printed, threads, fgstack, calls, out, wrote100, touched, main, fn, run>>

ForegroundStep ==
    \/ UpdateStep(0)
    \/ SimAlive
    \/ SimStop
    \/ SimJoin
    \/ SimClear
    \/ SimStart
    \/ WaitAlive
    \/ WaitJoin

ThreadStep == \E t \in Workers : UpdateStep(t) \/ WorkerStep(t)

\* ------------------------------------------------- calls of the foreground
\* progress.update(step, p) / progress.update(step)
DoUpdate(s, given, p) ==
    /\ fgstack' = <<Frame(s, given, IF given THEN p ELSE 0)>>
    /\ fg' = [Idle EXCEPT !.op = "update", !.step = s]
    /\ wrote100' = wrote100

\* progress.simulate_progress(step, start_from, until)
DoSimulate(s, sf, un) ==
    /\ fg' = [Idle EXCEPT !.op = "simulate", !.pc = "alive", !.step = s,
              !.start_from = sf, !.until = un,
              !.active = IF IsAlive(current_thread)
                         THEN threads[current_thread].step ELSE ""]
    /\ wrote100' = wrote100 \ {s}
    /\ fgstack' = fgstack

\* progress.wait_for_fake_progress()
DoWait ==
    /\ fg' = [Idle EXCEPT !.op = "wait", !.pc = "alive"]
    /\ fgstack' = fgstack
    /\ wrote100' = wrote100

\* ------------------------------------------- a client calling the reporter
\* Step descriptions are interchangeable, so the client names them in the
\* order of StepNames: a step it has named before, or the next new one.
StepIndex(s) == CHOOSE i \in 1 .. Len(StepNames) : StepNames[i] = s
MayName(s) == StepIndex(s) <= touched.named + 1
Named(s) == Max(touched.named, StepIndex(s))

CallUpdate(limit) ==
    /\ fg.op = "idle"
    /\ calls < limit
    /\ \E s \in Steps, given \in BOOLEAN, p \in Percents :
         /\ MayName(s)
         /\ given \/ p = 150    \* progress=None is one call, whatever p
         /\ DoUpdate(s, given, p)
         /\ touched' = [op |-> "update", step |-> s, full |-> given /\ p >= 100,
                         named |-> Named(s)]
    /\ calls' = calls + 1
    /\ UNCHANGED <<current_step, progress, stop_fake_progress, is_running_fake,
                   current_thread, step_printed, threads, out, main, fn, run>>

CallSimulate(limit) ==
    /\ fg.op = "idle"
    /\ calls < limit
    /\ \E s \in Steps, sf \in StartFroms, un \in Untils :
         /\ MayName(s)
         /\ DoSimulate(s, sf, un)
         /\ touched' = [op |-> "simulate", step |-> s, full |-> sf >= 100,
                         named |-> Named(s)]
    /\ calls' = calls + 1
    /\ UNCHANGED <<current_step, progress, stop_fake_progress, is_running_fake,
                   current_thread, step_printed, threads, out, main, fn, run>>

CallWait(limit) ==
    /\ fg.op = "idle"
    /\ calls < limit
    /\ DoWait
    /\ touched' = [touched EXCEPT !.op = "wait"]
    /\ calls' = calls + 1
    /\ UNCHANGED <<current_step, progress, stop_fake_progress, is_running_fake,
                   current_thread, step_printed, threads, out, main, fn, run>>

Client(limit) ==
    \/ CallUpdate(limit)
    \/ CallSimulate(limit)
    \/ CallWait(limit)

Next ==
    \/ Client(MaxCalls)
    \/ ForegroundStep
    \/ ThreadStep

Spec == Init /\ [][Next]_vars

\* The scheduler runs every thread that can run: the foreground inside a
\* reporter call, and each worker thread.  The client may stop calling.
WorkerRun(t) == t \in Workers /\ (UpdateStep(t) \/ WorkerStep(t))
Fairness ==
    /\ WF_vars(ForegroundStep)
    /\ \A t \in 1 .. MaxLiveCalls : WF_vars(WorkerRun(t))
NextLive ==
    \/ Client(MaxLiveCalls)
    \/ ForegroundStep
    \/ ThreadStep
FairSpec == Init /\ [][NextLive]_vars /\ Fairness

\* ----------------------------------------------------------------- strings
\* A Python str is a sequence of characters; a character is a one-letter
\* string, and "U+00C9", "U+00E9" stand for the letters E-acute and e-acute
\* (alphanumeric for str.isalnum, outside ASCII).
LowerLetters ==
    <<"a", "b", "c", "d", "e", "f", "g", "h", "i", "j", "k", "l", "m",
      "n", "o", "p", "q", "r", "s", "t", "u", "v", "w", "x", "y", "z", "U+00E9">>
UpperLetters ==
    <<"A", "B", "C", "D", "E", "F", "G", "H", "I", "J", "K", "L", "M",
      "N", "O", "P", "Q", "R", "S", "T", "U", "V", "W", "X", "Y", "Z", "U+00C9">>
Digits == {"0", "1", "2", "3", "4", "5", "6", "7", "8", "9"}
Whitespace == {" "}

IndexIn(c, letters) == CHOOSE i \in 1 .. Len(letters) : letters[i] = c
IsIn(c, letters) == \E i \in 1 .. Len(letters) : letters[i] = c

\* str.lower(), str.upper(), str.isalnum() on one character
LowerChar(c) == IF IsIn(c, UpperLetters) THEN LowerLetters[IndexIn(c, UpperLetters)] ELSE c
UpperChar(c) == IF IsIn(c, LowerLetters) THEN UpperLetters[IndexIn(c, LowerLetters)] ELSE c
IsAlnum(c) == IsIn(c, LowerLetters) \/ IsIn(c, UpperLetters) \/ c \in Digits

Lower(s) == [i \in 1 .. Len(s) |-> LowerChar(s[i])]
Upper(s) == [i \in 1 .. Len(s) |-> UpperChar(s[i])]

RECURSIVE LStrip(_)
LStrip(s) == IF s # <<>> /\ Head(s) \in Whitespace THEN LStrip(Tail(s)) ELSE s
\* str.rstrip(chars)
RECURSIVE RStrip(_, _)
RStrip(s, chars) ==
    IF s # <<>> /\ s[Len(s)] \in chars
    THEN RStrip(SubSeq(s, 1, Len(s) - 1), chars)
    ELSE s
\* str.strip()
Strip(s) == RStrip(LStrip(s), Whitespace)

StartsWith(s, pre) == Len(s) >= Len(pre) /\ SubSeq(s, 1, Len(pre)) = pre
EndsWith(s, suf) ==
    Len(s) >= Len(suf) /\ SubSeq(s, Len(s) - Len(suf) + 1, Len(s)) = suf
\* sub in s
Contains(s, sub) ==
    \E i \in 1 .. Len(s) + 1 :
        i + Len(sub) - 1 <= Len(s) /\ SubSeq(s, i, i + Len(sub) - 1) = sub
\* str.replace(" ", "_")
ReplaceSpaces(s) == [i \in 1 .. Len(s) |-> IF s[i] = " " THEN "_" ELSE s[i]]

\* ---------------------------------------- generate_file_name_with_ai, naming
\* Longest response text of the naming model in SpecName.
MaxNameLen == 4
\* Characters of the response texts: letters of both cases, a digit, the
\* characters of the extension, the two kept marks, a space, a mark that is
\* dropped, and a letter outside ASCII.
NameChars == {"a", "M", "m", "d", "1", ".", "_", " ", "-", "U+00C9"}
Texts == UNION {[1 .. n -> NameChars] : n \in 0 .. MaxNameLen}

DotMd == <<".", "m", "d">>
OutputMd == <<"o", "u", "t", "p", "u", "t", ".", "m", "d">>
\* lines 459-460: if not file_name.endswith(".md"): file_name += ".md"
EnsureMd(s) == IF EndsWith(s, DotMd) THEN s ELSE s \o DotMd
KeepNameChar(c) == IsAlnum(c) \/ c \in {"_", "."}
\* line 462: "".join(c for c in file_name if c.isalnum() or c in ["_", "."])
KeepNameChars(s) == SelectSeq(s, KeepNameChar)
\* lines 457-467: the name returned for the response text
GeneratedFileName(text) == KeepNameChars(EnsureMd(Lower(Strip(text))))
\* line 552: file_name = file_name.strip().replace(" ", "_")
OutputName(file_name) == ReplaceSpaces(Strip(file_name))

FnFrame ==
    UNCHANGED <<current_step, progress, stop_fake_progress, is_running_fake,
                current_thread, step_printed, threads, fg, fgstack, calls, out,
                wrote100, touched, main, run>>
FnAt(op, pc) == fn.op = op /\ fn.pc = pc

\* line 457: file_name = response.text.strip().lower()
FileNameLower ==
    /\ FnAt("file_name", "lower")
    /\ fn' = [fn EXCEPT !.file_name = Lower(Strip(fn.text)), !.pc = "ext"]
    /\ FnFrame

\* lines 459-460
FileNameExt ==
    /\ FnAt("file_name", "ext")
    /\ fn' = [fn EXCEPT !.file_name = EnsureMd(fn.file_name), !.pc = "filter"]
    /\ FnFrame

\* lines 462-467: the filter, and the name is returned to main
FileNameFilter ==
    /\ FnAt("file_name", "filter")
    /\ fn' = [fn EXCEPT !.file_name = KeepNameChars(fn.file_name), !.pc = "replace"]
    /\ FnFrame

\* line 552, and the name is handed to open() at line 554
FileNameReplace ==
    /\ FnAt("file_name", "replace")
    /\ fn' = [fn EXCEPT !.file_name = OutputName(fn.file_name), !.pc = "open"]
    /\ FnFrame

NextName ==
    \/ FileNameLower
    \/ FileNameExt
    \/ FileNameFilter
    \/ FileNameReplace

\* response.text is any text of Texts
InitName ==
    /\ Constructed
    /\ fn \in {[op |-> "file_name", pc |-> "lower", text |-> t, file_name |-> <<>>] :
                 t \in Texts}
    /\ run = NoRun

\* The file name made of one response of the naming model
SpecName == InitName /\ [][NextName]_vars

\* ------------------------------------- get_sheet_data, mark_identifiers: cells
FormulaOpen == <<" ", "[", "f", "o", "r", "m", "u", "l", "a", ":", " ">>
OptionsOpen == <<" ", "[", "o", "p", "t", "i", "o", "n", "s", ":", " ">>
Close == <<"]">>
CommaSpace == <<",", " ">>
FormulaMark == <<"[", "f", "o", "r", "m", "u", "l", "a", ":">>
OptionsMark == <<"[", "o", "p", "t", "i", "o", "n", "s", ":">>
\* U+0060 is the backtick
Backtick == <<"U+0060">>
SelectOpen == <<" ", "<", "s", "e", "l", "e", "c", "t", ">">>
SelectClose == <<"<", "/", "s", "e", "l", "e", "c", "t", ">">>
Checked == <<"-", " ", "[", "x", "]">>
Unchecked == <<"-", " ", "[", " ", "]">>
TrueWords == {<<"T", "R", "U", "E">>, <<"V", "E", "R", "D", "A", "D", "E", "I", "R", "O">>}
BoolWords == TrueWords \cup {<<"F", "A", "L", "S", "E">>, <<"F", "A", "L", "S", "O">>}

\* The cells of SpecCell: formattedValue, formulaValue, and the
\* userEnteredValue of each dropdown option.
DisplayValues ==
    {<<>>,
     <<"x">>,
     <<"T", "R", "U", "E">>,
     <<"t", "r", "u", "e">>,
     <<"F", "a", "l", "s", "o">>,
     <<"[", "o", "p", "t", "i", "o", "n", "s", ":">>,
     <<"a", " ", "[", "o", "p", "t", "i", "o", "n", "s", ":", " ", "b">>,
     <<"[", "f", "o", "r", "m", "u", "l", "a", ":">>}
Formulas == {<<>>, <<"=", "A", "1">>}
OptionLists ==
    {<<>>,
     <<<<"a">>>>,
     <<<<"b">>, <<"a">>>>,
     <<<<"a">>, <<"a">>>>,
     <<<<"a", "]">>>>}

\* sep.join(items)
RECURSIVE Join(_, _)
Join(items, sep) ==
    IF items = <<>> THEN <<>>
    ELSE IF Len(items) = 1 THEN items[1]
    ELSE items[1] \o sep \o Join(Tail(items), sep)

\* s.split(sep): the pieces between the occurrences of sep, found left to right
RECURSIVE SplitFrom(_, _, _)
SplitFrom(s, sep, piece) ==
    IF s = <<>> THEN <<piece>>
    ELSE IF StartsWith(s, sep)
         THEN <<piece>> \o SplitFrom(SubSeq(s, Len(sep) + 1, Len(s)), sep, <<>>)
         ELSE SplitFrom(Tail(s), sep, Append(piece, Head(s)))
Split(s, sep) == SplitFrom(s, sep, <<>>)

\* lines 207-214: the cell is read; cell_value = display_value
CellValue ==
    /\ FnAt("cell", "value")
    /\ fn' = [fn EXCEPT !.cell = fn.display, !.pc = "formula"]
    /\ FnFrame

\* lines 215-216: if formula: cell_value += f" [formula: {formula}]"
CellFormula ==
    /\ FnAt("cell", "formula")
    /\ fn' = [fn EXCEPT
                !.cell = IF fn.formula # <<>>
                         THEN fn.cell \o FormulaOpen \o fn.formula \o Close
                         ELSE fn.cell,
                !.pc = "options"]
    /\ FnFrame

\* lines 217-223: if dropdown_options: cell_value += f" [options: {...}]"
CellOptions ==
    /\ FnAt("cell", "options")
    /\ fn' = [fn EXCEPT
                !.cell = IF fn.options # <<>>
                         THEN fn.cell \o OptionsOpen \o Join(fn.options, CommaSpace) \o Close
                         ELSE fn.cell,
                !.pc = "mark_formula"]
    /\ FnFrame

\* lines 493-494: if "[formula:" in cell, the cell is put between backticks
MarkFormula ==
    /\ FnAt("cell", "mark_formula")
    /\ fn' = [fn EXCEPT
                !.cell = IF Contains(fn.cell, FormulaMark)
                         THEN Backtick \o fn.cell \o Backtick
                         ELSE fn.cell,
                !.pc = "mark_options"]
    /\ FnFrame

\* lines 496-500: parts[1] raises IndexError when the split gave one piece
MarkOptions ==
    /\ FnAt("cell", "mark_options")
    /\ LET parts == Split(fn.cell, OptionsOpen) IN
       fn' = IF ~Contains(fn.cell, OptionsMark)
             THEN [fn EXCEPT !.pc = "mark_bool"]
             ELSE IF Len(parts) < 2
             THEN [fn EXCEPT !.pc = "raised", !.error = "IndexError"]
             ELSE [fn EXCEPT
                     !.cell = parts[1] \o SelectOpen \o RStrip(parts[2], {"]"})
                                \o SelectClose,
                     !.pc = "mark_bool"]
    /\ FnFrame

\* lines 502-506: the checkbox tokens; formatted_row.append(cell)
MarkBool ==
    /\ FnAt("cell", "mark_bool")
    /\ fn' = [fn EXCEPT
                !.cell = IF Upper(fn.cell) \in BoolWords
                         THEN IF Upper(fn.cell) \in TrueWords THEN Checked ELSE Unchecked
                         ELSE fn.cell,
                !.pc = "done"]
    /\ FnFrame

NextCell ==
    \/ CellValue
    \/ CellFormula
    \/ CellOptions
    \/ MarkFormula
    \/ MarkOptions
    \/ MarkBool

\* One cell of the fetched grid
InitCell ==
    /\ Constructed
    /\ fn \in {[op |-> "cell", pc |-> "value", display |-> d, formula |-> f,
                  options |-> o, cell |-> <<>>, error |-> ""] :
                 d \in DisplayValues, f \in Formulas, o \in OptionLists}
    /\ run = NoRun

\* One cell through get_sheet_data and mark_identifiers
SpecCell == InitCell /\ [][NextCell]_vars

\* -------------------------------------------------------------------- main
AuthStep == "Authenticating with Google"
\* The response of the naming model in SpecMain
MainTexts == {<<"R", "e", "p", "o", "r", "t", " ", "1">>}

MainAt(pc) == fg.op = "idle" /\ main.pc = pc
MainGoto(pc) == main' = [main EXCEPT !.pc = pc]
\* an exception that reaches the except clause of line 557
MainRaise(cause) == main' = [main EXCEPT !.pc = "except", !.cause = cause]
NoCall == UNCHANGED <<fg, fgstack, wrote100>>
MainFrame ==
    UNCHANGED <<current_step, progress, stop_fake_progress, is_running_fake,
                current_thread, step_printed, threads, calls, out, touched, fn, run>>

\* lines 526-532: progress = ProgressBar(); the output directory
MainStart ==
    /\ MainAt("start")
    /\ MainGoto("auth")
    /\ NoCall /\ MainFrame

\* line 351: progress.update("Authenticating with Google", 0)
AuthBegin ==
    /\ MainAt("auth")
    /\ DoUpdate(AuthStep, TRUE, 0)
    /\ MainGoto("auth_token")
    /\ MainFrame

\* lines 352-369: the token file is read when it is there
AuthToken ==
    /\ MainAt("auth_token")
    /\ \/ MainGoto("auth_err") /\ NoCall
       \/ main' = [main EXCEPT !.pc = "auth_valid", !.creds = "none"] /\ NoCall
       \/ \E c \in {"valid", "expired", "invalid"} :
            /\ main' = [main EXCEPT !.pc = "auth_valid", !.creds = c]
            /\ DoUpdate(AuthStep, TRUE, 30)
    /\ MainFrame

\* lines 371-372: if not creds or not creds.valid: update(..., 50)
AuthValid ==
    /\ MainAt("auth_valid")
    /\ IF main.creds = "valid"
       THEN MainGoto("auth_done") /\ NoCall
       ELSE MainGoto("auth_flow") /\ DoUpdate(AuthStep, TRUE, 50)
    /\ MainFrame

\* lines 373-401: the token is refreshed, or the OAuth flow is run
AuthFlow ==
    /\ MainAt("auth_flow")
    /\ \/ /\ main.creds \in {"expired", "none"}
          /\ main' = [main EXCEPT !.pc = "auth_90", !.creds = "valid",
                                   !.remote = @ \cup {"auth"}]
       \/ /\ main.creds \in {"expired", "none"}
          /\ main' = [main EXCEPT !.pc = "auth_err", !.creds = "none",
                                   !.remote = @ \cup {"auth"}]
       \/ /\ main.creds = "invalid"
          /\ MainGoto("auth_90")
    /\ NoCall /\ MainFrame

\* line 403: progress.update("Authenticating with Google", 90)
Auth90 ==
    /\ MainAt("auth_90")
    /\ DoUpdate(AuthStep, TRUE, 90)
    /\ MainGoto("auth_done")
    /\ MainFrame

\* lines 405-406: progress.update("Authenticating with Google", 100); return
AuthDone ==
    /\ MainAt("auth_done")
    /\ DoUpdate(AuthStep, TRUE, 100)
    /\ MainGoto("build")
    /\ MainFrame

\* lines 408-410: progress.update("Authentication error", 100); raise
AuthErr ==
    /\ MainAt("auth_err")
    /\ DoUpdate("Authentication error", TRUE, 100)
    /\ MainRaise("auth")
    /\ MainFrame

\* line 535: service = build("sheets", "v4", credentials=creds); creds is
\* not read again
Build ==
    /\ MainAt("build")
    /\ \/ main' = [main EXCEPT !.pc = "meta_sim", !.creds = "none"]
       \/ main' = [main EXCEPT !.pc = "except", !.creds = "none", !.cause = "build"]
    /\ NoCall /\ MainFrame

\* line 161: progress.simulate_progress("Loading spreadsheet metadata...")
MetaSim ==
    /\ MainAt("meta_sim")
    /\ DoSimulate("Loading spreadsheet metadata...", 0, 80)
    /\ MainGoto("meta_open")
    /\ MainFrame

\* lines 162-164: json/sheet_info.json is opened and parsed, or that raises
MetaOpen ==
    /\ MainAt("meta_open")
    /\ MainGoto("meta_upd") \/ MainRaise("meta_file")
    /\ NoCall /\ MainFrame

\* line 165: progress.update("Loading spreadsheet metadata", 100)
MetaUpd ==
    /\ MainAt("meta_upd")
    /\ DoUpdate("Loading spreadsheet metadata", TRUE, 100)
    /\ MainGoto("meta_wait")
    /\ MainFrame

\* lines 166-167: progress.wait_for_fake_progress(); return data
MetaWait ==
    /\ MainAt("meta_wait")
    /\ DoWait
    /\ MainGoto("meta_keys")
    /\ MainFrame

\* lines 538-539: sheet_metadata["spreadsheet_id"], ["sheet_title"], or KeyError.
\* Once the record is accepted the requests made before it are of no
\* interest any more and leave the history.
MetaKeys ==
    /\ MainAt("meta_keys")
    /\ \/ main' = [main EXCEPT !.pc = "data_sim", !.remote = {}]
       \/ MainRaise("meta_keys")
    /\ NoCall /\ MainFrame

\* line 187: progress.simulate_progress("Retrieving spreadsheet data...")
DataSim ==
    /\ MainAt("data_sim")
    /\ DoSimulate("Retrieving spreadsheet data...", 0, 80)
    /\ MainGoto("data_fetch")
    /\ MainFrame

\* lines 188-194 (and 231-233): the spreadsheet is fetched, or None is returned
DataFetch ==
    /\ MainAt("data_fetch")
    /\ \/ main' = [main EXCEPT !.pc = "data_85", !.remote = @ \cup {"fetch"}]
       \/ main' = [main EXCEPT !.pc = "data_check", !.sheet_data = "none",
                                !.remote = @ \cup {"fetch"}]
    /\ NoCall /\ MainFrame

\* line 195: progress.update("Retrieving spreadsheet data...", 85)
Data85 ==
    /\ MainAt("data_85")
    /\ DoUpdate("Retrieving spreadsheet data...", TRUE, 85)
    /\ MainGoto("data_rows")
    /\ MainFrame

\* lines 197-225 (and 231-233): the rows are read, or None is returned
DataRows ==
    /\ MainAt("data_rows")
    /\ \/ \E d \in {"empty", "rows"} :
            main' = [main EXCEPT !.pc = "data_upd", !.sheet_data = d]
       \/ main' = [main EXCEPT !.pc = "data_check", !.sheet_data = "none"]
    /\ NoCall /\ MainFrame

\* line 227: progress.update("Retrieving spreadsheet data", 100)
DataUpd ==
    /\ MainAt("data_upd")
    /\ DoUpdate("Retrieving spreadsheet data", TRUE, 100)
    /\ MainGoto("data_wait")
    /\ MainFrame

\* lines 228-229: progress.wait_for_fake_progress(); return formatted_data
DataWait ==
    /\ MainAt("data_wait")
    /\ DoWait
    /\ MainGoto("data_check")
    /\ MainFrame

DataCheckNoReturn ==
    /\ MainAt("data_check")
    /\ MainGoto("mark")
    /\ NoCall /\ MainFrame

\* lines 543-545: if not sheet_data: print(...); return
DataCheck ==
    /\ MainAt("data_check")
    /\ IF main.sheet_data = "rows"
       THEN MainGoto("mark")
       ELSE main' = [main EXCEPT !.pc = "finally", !.note = "no_data"]
    /\ NoCall /\ MainFrame

\* line 547: marked_data = mark_identifiers(sheet_data)
Mark ==
    /\ MainAt("mark")
    /\ MainGoto("fmt_sim") \/ MainRaise("mark")
    /\ NoCall /\ MainFrame

\* lines 252-254: simulate_progress("Formatting data with Gemini...", 10, 90)
FmtSim ==
    /\ MainAt("fmt_sim")
    /\ DoSimulate("Formatting data with Gemini...", 10, 90)
    /\ MainGoto("fmt_call")
    /\ MainFrame

\* lines 256-326 (and 332-334): the model answers, or None is returned
FmtCall ==
    /\ MainAt("fmt_call")
    /\ \/ main' = [main EXCEPT !.pc = "fmt_upd", !.gemini = "text",
                                !.remote = @ \cup {"format"}]
       \/ main' = [main EXCEPT !.pc = "name_sim", !.gemini = "failed",
                                !.remote = @ \cup {"format"}]
    /\ NoCall /\ MainFrame

\* line 328: progress.update("Formatting data with Gemini", 100)
FmtUpd ==
    /\ MainAt("fmt_upd")
    /\ DoUpdate("Formatting data with Gemini", TRUE, 100)
    /\ MainGoto("fmt_wait")
    /\ MainFrame

\* lines 329-330: progress.wait_for_fake_progress(); return formatted_data
FmtWait ==
    /\ MainAt("fmt_wait")
    /\ DoWait
    /\ MainGoto("name_sim")
    /\ MainFrame

\* line 430: simulate_progress("Generating file name...", start_from=0, until=90)
NameSim ==
    /\ MainAt("name_sim")
    /\ DoSimulate("Generating file name...", 0, 90)
    /\ MainGoto("name_call")
    /\ MainFrame

\* lines 432-462: the model names the file, or that raises
NameCall ==
    /\ MainAt("name_call")
    /\ \/ \E text \in MainTexts :
            main' = [main EXCEPT !.pc = "name_upd",
                                 !.file_name = GeneratedFileName(text),
                                 !.name_source = "model",
                                 !.remote = @ \cup {"name"}]
       \/ main' = [main EXCEPT !.pc = "name_err", !.remote = @ \cup {"name"}]
    /\ NoCall /\ MainFrame

\* line 464: progress.update("Generating filename", 100)
NameUpd ==
    /\ MainAt("name_upd")
    /\ DoUpdate("Generating filename", TRUE, 100)
    /\ MainGoto("name_wait")
    /\ MainFrame

\* lines 465-467: progress.wait_for_fake_progress(); return file_name
NameWait ==
    /\ MainAt("name_wait")
    /\ DoWait
    /\ MainGoto("write")
    /\ MainFrame

NameErrNoName ==
    /\ MainAt("name_err")
    /\ DoUpdate("Error generating filename", TRUE, 100)
    /\ main' = [main EXCEPT !.pc = "write", !.name_source = "fallback"]
    /\ MainFrame

\* lines 469-472: update("Error generating filename", 100); return "output.md"
NameErr ==
    /\ MainAt("name_err")
    /\ DoUpdate("Error generating filename", TRUE, 100)
    /\ main' = [main EXCEPT !.pc = "write", !.file_name = OutputMd,
                             !.name_source = "fallback"]
    /\ MainFrame

\* lines 552-555: the file is opened for writing and the text is written;
\* f.write(None) raises after open() has created the file
Write ==
    /\ MainAt("write")
    /\ \/ /\ main.gemini = "text"
          /\ main' = [main EXCEPT !.pc = "finally", !.output = "written",
                                   !.path = OutputName(main.file_name)]
       \/ /\ main.gemini = "failed"
          /\ main' = [main EXCEPT !.pc = "except", !.output = "empty",
                                   !.path = OutputName(main.file_name),
                                   !.cause = "write"]
       \/ MainRaise("write")
    /\ NoCall /\ MainFrame

\* lines 557-558: except Exception as e: print(...)
Except ==
    /\ MainAt("except")
    /\ main' = [main EXCEPT !.pc = "finally", !.note = "error"]
    /\ NoCall /\ MainFrame

FinallyNoWait ==
    /\ MainAt("finally")
    /\ MainGoto("returned")
    /\ NoCall /\ MainFrame

\* lines 559-560: finally: progress.wait_for_fake_progress(); main returns
Finally ==
    /\ MainAt("finally")
    /\ DoWait
    /\ MainGoto("returned")
    /\ MainFrame

\* lines 563-564: main() has returned and the interpreter ends; nothing in
\* the script calls sys.exit and no exception leaves main
ScriptExit ==
    /\ MainAt("returned")
    /\ main' = [main EXCEPT !.pc = "exited", !.status = 0]
    /\ NoCall /\ MainFrame

MainStep ==
    \/ MainStart
    \/ AuthBegin
    \/ AuthToken
    \/ AuthValid
    \/ AuthFlow
    \/ Auth90
    \/ AuthDone
    \/ AuthErr
    \/ Build
    \/ MetaSim
    \/ MetaOpen
    \/ MetaUpd
    \/ MetaWait
    \/ MetaKeys
    \/ DataSim
    \/ DataFetch
    \/ Data85
    \/ DataRows
    \/ DataUpd
    \/ DataWait
    \/ DataCheck
    \/ Mark
    \/ FmtSim
    \/ FmtCall
    \/ FmtUpd
    \/ FmtWait
    \/ NameSim
    \/ NameCall
    \/ NameUpd
    \/ NameWait
    \/ NameErr
    \/ Write
    \/ Except
    \/ Finally
    \/ ScriptExit

NextMain ==
    \/ MainStep
    \/ ForegroundStep
    \/ ThreadStep

\* main() run once, from the start of the script
SpecMain == Init /\ [][NextMain]_vars

\* -------------------------------------- get_sheet_data, mark_identifiers: grid
MaxRows == 3
MaxCols == 2

\* lines 207-223 as a function of the cell: cell_value
CellText(c) ==
    LET shown == c.display
        with_formula == IF c.formula # <<>>
                        THEN shown \o FormulaOpen \o c.formula \o Close
                        ELSE shown
    IN  IF c.options # <<>>
        THEN with_formula \o OptionsOpen \o Join(c.options, CommaSpace) \o Close
        ELSE with_formula

\* lines 493-494
MarkedFormula(cell) ==
    IF Contains(cell, FormulaMark) THEN Backtick \o cell \o Backtick ELSE cell

\* lines 496-498: parts[1] of a split that gave one piece is an IndexError
MarkRaises(cell) ==
    LET c1 == MarkedFormula(cell) IN
    Contains(c1, OptionsMark) /\ Len(Split(c1, OptionsOpen)) < 2

\* lines 496-500
MarkedOptions(cell) ==
    LET parts == Split(cell, OptionsOpen) IN
    IF Contains(cell, OptionsMark) /\ Len(parts) >= 2
    THEN parts[1] \o SelectOpen \o RStrip(parts[2], {"]"}) \o SelectClose
    ELSE cell

\* lines 502-504
MarkedBool(cell) ==
    IF Upper(cell) \in BoolWords
    THEN IF Upper(cell) \in TrueWords THEN Checked ELSE Unchecked
    ELSE cell

\* lines 493-506 as a function of the cell text, when nothing is raised
MarkedCell(cell) == MarkedBool(MarkedOptions(MarkedFormula(cell)))

\* The cells and the rows of SpecGrid; a row of rowData may come without the
\* key "values"
GridCells ==
    {[display |-> <<"x">>, formula |-> <<>>, options |-> <<>>],
     [display |-> <<"x">>, formula |-> <<"=", "A", "1">>, options |-> <<>>],
     [display |-> <<"T", "R", "U", "E">>, formula |-> <<>>, options |-> <<>>],
     [display |-> OptionsMark, formula |-> <<>>, options |-> <<>>]}
NoValues == [has_values |-> FALSE, values |-> <<>>]
GridRows ==
    {NoValues} \cup
    {[has_values |-> TRUE, values |-> v] :
        v \in UNION {[1..n -> GridCells] : n \in 1..MaxCols}}
Grids == UNION {[1..n -> GridRows] : n \in 0..MaxRows}

\* lines 201-225: one turn of `for row in rows`
GridRow ==
    /\ FnAt("grid", "rows")
    /\ fn.i <= Len(fn.grid)
    /\ LET row == fn.grid[fn.i] IN
       fn' = IF ~row.has_values
             THEN [fn EXCEPT !.i = @ + 1]
             ELSE [fn EXCEPT
                     !.i = @ + 1,
                     !.data = Append(@, [j \in 1..Len(row.values) |->
                                            CellText(row.values[j])])]
    /\ FnFrame

\* lines 229, 541-545: get_sheet_data returns formatted_data; main goes on
\* when it is not empty
GridReturn ==
    /\ FnAt("grid", "rows")
    /\ fn.i > Len(fn.grid)
    /\ fn' = [fn EXCEPT !.pc = IF fn.data = <<>> THEN "no_data" ELSE "mark", !.i = 1]
    /\ FnFrame

\* lines 490-507: one turn of `for row in data`
GridMark ==
    /\ FnAt("grid", "mark")
    /\ fn.i <= Len(fn.data)
    /\ LET row == fn.data[fn.i] IN
       fn' = IF \E j \in 1..Len(row) : MarkRaises(row[j])
             THEN [fn EXCEPT !.pc = "raised", !.error = "IndexError"]
             ELSE [fn EXCEPT
                     !.i = @ + 1,
                     !.table = Append(@, [j \in 1..Len(row) |-> MarkedCell(row[j])])]
    /\ FnFrame

\* lines 508, 547-548: mark_identifiers returns; the table goes to
\* format_with_gemini
GridHand ==
    /\ FnAt("grid", "mark")
    /\ fn.i > Len(fn.data)
    /\ fn' = [fn EXCEPT !.pc = "handed"]
    /\ FnFrame

NextGrid ==
    \/ GridRow
    \/ GridReturn
    \/ GridMark
    \/ GridHand

\* One fetched grid
InitGrid ==
    /\ Constructed
    /\ fn \in {[op |-> "grid", pc |-> "rows", grid |-> g, i |-> 1, data |-> <<>>,
                table |-> <<>>, error |-> ""] : g \in Grids}
    /\ run = NoRun

\* One grid through get_sheet_data and mark_identifiers
SpecGrid == InitGrid /\ [][NextGrid]_vars

\* ------------------------------------ run.py, access_gsheet_and_save_data.py
\* Number of invalid answers the user gives to the worksheet prompt.
MaxTries == 2

RunFrame ==
    UNCHANGED <<current_step, progress, stop_fake_progress, is_running_fake,
                current_thread, step_printed, threads, fg, fgstack, calls, out,
                wrote100, touched, main, fn>>
RunAt(pc) == run.pc = pc
RunGoto(pc) == run' = [run EXCEPT !.pc = pc]
\* an exception inside the try of lines 144-153; failure is history
Script1Raise(failure) == run' = [run EXCEPT !.pc = "s1_except", !.failure = failure]

\* run.py lines 67-73: both script files must exist, or sys.exit(1)
RunCheckFiles ==
    /\ RunAt("check")
    /\ run' = IF run.exists1 /\ run.exists2
              THEN [run EXCEPT !.pc = "run1"]
              ELSE [run EXCEPT !.pc = "exited", !.status = 1]
    /\ RunFrame

\* run.py lines 75, 39-41: subprocess.run([sys.executable, script1], check=True)
RunScript1 ==
    /\ RunAt("run1")
    /\ run' = [run EXCEPT !.pc = "s1_import", !.script1 = "running"]
    /\ RunFrame

\* script 1 lines 17-27: the imports and load_dotenv(), outside any try: an
\* error here ends the script with status 1
Script1Import ==
    /\ RunAt("s1_import")
    /\ run' = IF run.imports
              THEN [run EXCEPT !.pc = "s1_env"]
              ELSE [run EXCEPT !.pc = "run1_done", !.script1 = "exited",
                               !.status1 = 1, !.failure = "import"]
    /\ RunFrame

\* script 1 lines 144-151: SPREADSHEET_ID, or ValueError
Script1Env ==
    /\ RunAt("s1_env")
    /\ IF run.id_set THEN RunGoto("s1_auth") ELSE Script1Raise("no_id")
    /\ RunFrame

\* script 1 lines 99-104, 35-80: authenticate_google_sheets(); with a token
\* that is not valid the refresh or the OAuth flow runs, and may raise
Script1Auth ==
    /\ RunAt("s1_auth")
    /\ \/ RunGoto("s1_open")
       \/ run.token # "valid" /\ Script1Raise("auth")
    /\ RunFrame

\* script 1 lines 106-113: open_by_key; both except clauses print and return
Script1Open ==
    /\ RunAt("s1_open")
    /\ run' = IF run.access = "ok"
              THEN [run EXCEPT !.pc = "s1_list"]
              ELSE [run EXCEPT !.pc = "s1_end", !.failure = run.access]
    /\ RunFrame

\* script 1 lines 115-118: spreadsheet.worksheets()
Script1List ==
    /\ RunAt("s1_list")
    /\ RunGoto("s1_choose") \/ Script1Raise("worksheets")
    /\ RunFrame

\* script 1 lines 120-129: the prompt is repeated until the answer is the
\* number of a worksheet; input() raises EOFError when stdin is closed
Script1Choose ==
    /\ RunAt("s1_choose")
    /\ \/ run.tries < MaxTries /\ run' = [run EXCEPT !.tries = @ + 1]
       \/ RunGoto("s1_save")
       \/ Script1Raise("input")
    /\ RunFrame

\* script 1 lines 131-140: json/sheet_info.json is written
Script1Save ==
    /\ RunAt("s1_save")
    /\ RunGoto("s1_end") \/ Script1Raise("write")
    /\ RunFrame

\* script 1 lines 154-155: except Exception as e: print(...)
Script1Except ==
    /\ RunAt("s1_except")
    /\ RunGoto("s1_end")
    /\ RunFrame

\* script 1 reaches its end: the interpreter exits with status 0
Script1End ==
    /\ RunAt("s1_end")
    /\ run' = [run EXCEPT !.pc = "run1_done", !.script1 = "exited", !.status1 = 0]
    /\ RunFrame

\* run.py lines 41-48, 75: check=True raises CalledProcessError unless the
\* status is 0; run_script returns True or False
RunScript1Done ==
    /\ RunAt("run1_done")
    /\ RunGoto(IF run.status1 = 0 THEN "run2" ELSE "stop")
    /\ RunFrame

\* run.py lines 76, 39-48: run_script(script2); its result is not read
RunScript2 ==
    /\ RunAt("run2")
    /\ \E st \in {0, 1} :
         run' = [run EXCEPT !.pc = "end", !.script2 = "exited", !.status2 = st]
    /\ RunFrame

\* run.py lines 77-79: the message and sys.exit(1)
RunStop ==
    /\ RunAt("stop")
    /\ run' = [run EXCEPT !.pc = "exited", !.status = 1]
    /\ RunFrame

\* run.py lines 76, 82-83: main returns and run.py ends with status 0
RunEnd ==
    /\ RunAt("end")
    /\ run' = [run EXCEPT !.pc = "exited", !.status = 0]
    /\ RunFrame

NextRun ==
    \/ RunCheckFiles
    \/ RunScript1
    \/ Script1Import
    \/ Script1Env
    \/ Script1Auth
    \/ Script1Open
    \/ Script1List
    \/ Script1Choose
    \/ Script1Save
    \/ Script1Except
    \/ Script1End
    \/ RunScript1Done
    \/ RunScript2
    \/ RunStop
    \/ RunEnd

\* The files, the environment, the token and the spreadsheet run.py finds
InitRun ==
    /\ Constructed
    /\ fn = NoFn
    /\ run \in {[pc |-> "check", exists1 |-> e1, exists2 |-> e2, imports |-> im,
                 id_set |-> id, token |-> tk, access |-> ac, tries |-> 0,
                 script1 |-> "not_started", status1 |-> -1,
                 script2 |-> "not_started", status2 |-> -1,
                 failure |-> "", status |-> -1] :
                e1 \in BOOLEAN, e2 \in BOOLEAN, im \in BOOLEAN, id \in BOOLEAN,
                tk \in {"valid", "expired", "none"},
                ac \in {"ok", "not_found", "error"}}

\* One run of run.py
SpecRun == InitRun /\ [][NextRun]_vars

\* ------------------------------------------------------------ properties
AliveWorkers == {t \in Workers : threads[t].alive}
Reporter == <<current_step, progress, stop_fake_progress, is_running_fake,
              current_thread, step_printed, threads, out>>

\* C1: in every reachable state at most one simulation worker thread is
\* alive, whatever the client calls: simulate_progress stops and joins a
\* worker that is still alive before it starts the next one.
C1_AtMostOneWorker == Cardinality(AliveWorkers) <= 1
\* a worker started by a simulate_progress that had to join its predecessor
C1_Witness == \E t \in Workers : threads[t].alive /\ threads[t].after_join

\* C2: once the client's last call, wait_for_fake_progress, has returned,
\* the reporter shows 100 percent for the last step the client touched.
\* Stated for the sequences whose last update or simulate_progress asked for
\* a completion (percent >= 100), the case the claim's call sites are in.
C2_CompleteAfterWait ==
    (fg.op = "idle" /\ touched.op = "wait" /\ touched.full)
        => (current_step = touched.step /\ progress = 100)

\* C3: wait_for_fake_progress returns only when no simulation worker is
\* alive, and when it finds none alive at line 143 it returns at once and
\* leaves the reporter as it was.
C3_WaitJoins ==
    [][(fg.op = "wait" /\ fg'.op = "idle")
         => /\ AliveWorkers' = {}
            /\ fg.pc = "alive" => UNCHANGED Reporter]_vars
\* the call has returned from join()
C3_Witness == fg.op = "idle" /\ fg.joined /\ touched.op = "wait"

\* C4: when simulate_progress(B) is called while the simulation of another
\* step A is alive, a bar showing 100 has been written for A (since A's
\* simulation began) by the time the header of B is written.
C4_ForceCompletedBeforeHeader ==
    (/\ fg.op = "simulate"
     /\ fg.active \notin {"", fg.step}
     /\ Len(fgstack) = 1
     /\ fgstack[1].pc = "setstep")
        => fg.active \in wrote100

\* C5: an update that changes step writes the header after it has emitted a
\* percent=100 write for the previous step, when line 91 found that step
\* below 100, and after no such write otherwise.
C5_ForceThenHeader ==
    \A t \in Tids : \A i \in 1 .. Len(Stack(t)) :
        Stack(t)[i].pc = "setstep" => Stack(t)[i].force \in {"none", "shown100"}

\* C6: the percent stays within [0,100]: every change of it is the reset to
\* 0 of a step change or stores min(100, max(0, p)) of the percent given to
\* an update, and an update without percent stores nothing.
C6_PercentClamped ==
    [][/\ progress' \in 0 .. 100
       /\ progress' # progress =>
             \E t \in Tids :
                 \/ InUpdate(t, "reset") /\ progress' = 0
                 \/ /\ InUpdate(t, "prog")
                    /\ Top(t).given
                    /\ progress' = Min(100, Max(0, Top(t).p))]_vars
\* a percent above 100 and a negative percent have been stored
C6_Witness ==
    /\ fgstack # <<>>
    /\ Top(0).pc = "bar"
    /\ \/ Top(0).p = 150 /\ progress = 100
       \/ Top(0).p = -5 /\ progress = 0

\* C7: with until < 100 no simulation worker thread performs a write of
\* percent=100, for its own step or for another one: no activation of update
\* running on a worker thread with a percent of 100 gets past its store of
\* line 99 (the store and the bar of 100 are the foreground's alone).
C7_OnlyForegroundCompletes ==
    \A t \in AliveWorkers : \A i \in 1 .. Len(threads[t].stack) :
        threads[t].stack[i].p >= 100 => threads[t].stack[i].pc \notin {"bar", "fin"}

\* C8: stop, then join, then the next header: when the foreground is about
\* to write the bar of a force-completion (the call of line 92) for a step
\* whose worker is alive, the stop flag is set; and when it is about to
\* write the header of a step, no worker of another step is alive.
C8_StopJoinHeader ==
    /\ (/\ Len(fgstack) >= 2
        /\ Top(0).pc = "bar"
        /\ \E t \in AliveWorkers : threads[t].step = Top(0).step)
           => stop_fake_progress
    /\ (fgstack # <<>> /\ Top(0).pc = "hdr")
           => \A t \in AliveWorkers : threads[t].step = Top(0).step

\* C9: under fair scheduling every simulation worker thread ends and every
\* wait_for_fake_progress call returns, also when nothing ever sets the
\* stop flag.
C9_Terminates ==
    /\ \A t \in 1 .. MaxLiveCalls : IsAlive(t) ~> ~IsAlive(t)
    /\ (fg.op = "wait") ~> (fg.op = "idle")
\* a worker leaves its loop at the bound `until` with the stop flag clear
C9_Witness ==
    \E t \in Workers :
        /\ threads[t].pc = "exit"
        /\ ~stop_fake_progress
        /\ threads[t].cur >= threads[t].until

\* C10: when main has returned, on whatever path, no simulation worker
\* thread is alive.
C10_MainJoins == (main.pc = "returned" /\ fg.op = "idle") => AliveWorkers = {}
\* main has returned after an exception and its cleanup went through join()
C10_Witness ==
    /\ main.pc = "returned"
    /\ fg.op = "idle"
    /\ fg.joined
    /\ main.output = "none"

C12_NoPartialOutput == main.gemini = "failed" => main.output # "empty"

\* C13: when the naming model raised, file_name is exactly "output.md", main
\* is at or past the write of the output file with nothing raised by the
\* naming, and a file that was opened was opened under that name.
C13_FallbackName ==
    main.name_source = "fallback"
        => /\ main.file_name = OutputMd
           /\ main.pc \in {"write", "except", "finally", "returned", "exited"}
           /\ main.cause \in {"", "write"}
           /\ main.output # "none" => main.path = OutputMd
\* the output was written under the fallback name
C13_Witness ==
    /\ main.name_source = "fallback"
    /\ main.output = "written"
    /\ main.path = OutputMd

\* C14: the name handed to open() is made of characters of [a-z0-9_.] only
\* and ends with ".md", whatever text the naming model returned.
AsciiNameChars == {LowerLetters[i] : i \in 1 .. 26} \cup Digits \cup {"_", "."}
C14_FileNameCharset ==
    FnAt("file_name", "open")
        => /\ \A i \in 1 .. Len(fn.file_name) : fn.file_name[i] \in AsciiNameChars
           /\ EndsWith(fn.file_name, DotMd)

\* C15: when the metadata file or one of its keys is missing, the run has
\* made no remote request and has written no output.
C15_AbortBeforeRemote ==
    main.cause \in {"meta_file", "meta_keys"}
        => /\ main.remote = {}
           /\ main.output = "none"

\* C16: the script ends with a status other than 0 when the metadata file or
\* one of its keys was missing, and with 0 when every phase completed.
C16_ExitStatus ==
    main.pc = "exited"
        => /\ main.cause \in {"meta_file", "meta_keys"} => main.status # 0
           /\ main.output = "written" => main.status = 0

\* C17: the annotation of a cell that has a formula begins and ends with a
\* backtick and contains the display value.
C17_FormulaWrapped ==
    (FnAt("cell", "done") /\ fn.formula # <<>>)
        => /\ StartsWith(fn.cell, Backtick)
           /\ EndsWith(fn.cell, Backtick)
           /\ Contains(fn.cell, fn.display)

\* s contains the items one after the other, in their order
RECURSIVE ContainsInOrder(_, _)
ContainsInOrder(s, items) ==
    \/ items = <<>>
    \/ \E i \in 1 .. Len(s) + 1 :
           /\ i + Len(Head(items)) - 1 <= Len(s)
           /\ SubSeq(s, i, i + Len(Head(items)) - 1) = Head(items)
           /\ ContainsInOrder(SubSeq(s, i + Len(Head(items)), Len(s)), Tail(items))

\* C18: the annotation of a cell that has dropdown options contains every
\* option, in the order of the input, repeated ones as often as given.
C18_OptionsKept ==
    (FnAt("cell", "done") /\ fn.options # <<>>)
        => ContainsInOrder(fn.cell, fn.options)

\* C19: the annotation of a cell whose display value is TRUE, FALSE,
\* VERDADEIRO or FALSO in any case is the checkbox token of that value,
\* whatever formula or options the cell has.
C19_Checkbox ==
    (FnAt("cell", "done") /\ Upper(fn.display) \in BoolWords)
        => fn.cell = IF Upper(fn.display) \in TrueWords THEN Checked ELSE Unchecked

\* C20: mark_identifiers raises for no cell, and an empty cell without
\* formula and options is annotated as the empty string.
C20_Total ==
    /\ ~FnAt("cell", "raised")
    /\ (FnAt("cell", "done") /\ fn.display = <<>> /\ fn.formula = <<>> /\ fn.options = <<>>)
           => fn.cell = <<>>

\* C21: run.py starts script 2 only after script 1 has ended; when script 1
\* failed, also with a failure it reported itself, script 2 is never started
\* and run.py ends with status 1; when a script file is missing neither
\* script is started and run.py ends with status 1.
C21_StopsOnFirstFailure ==
    /\ run.pc # "none" =>
         /\ run.script2 # "not_started" => run.script1 = "exited"
         /\ run.failure # "" => run.script2 = "not_started"
         /\ (run.pc = "exited" /\ run.failure # "") => run.status = 1
         /\ (run.pc = "exited" /\ ~(run.exists1 /\ run.exists2))
               => /\ run.status = 1
                  /\ run.script1 = "not_started"
                  /\ run.script2 = "not_started"

\* C22: the table handed to the formatter has one row per row of the fetched
\* grid, in the grid's order, rows without cell values included, and each row
\* has one annotated cell per source cell, in the same column.
C22_GridPreserved ==
    (fn.op = "grid" /\ fn.pc = "handed") =>
        /\ Len(fn.table) = Len(fn.grid)
        /\ \A i \in 1..Len(fn.grid) :
             /\ Len(fn.table[i]) = Len(fn.grid[i].values)
             /\ \A j \in 1..Len(fn.grid[i].values) :
                  fn.table[i][j] = MarkedCell(CellText(fn.grid[i].values[j]))

\* C23: once the foreground has moved the reporter to another step than the
\* one a live simulation worker was started for, no step of that worker
\* changes current_step, prints a header, or changes the recorded percent.
C23_LateTickNoEffect ==
    [][\A t \in Workers :
         (/\ threads[t].alive
          /\ current_step # ""
          /\ current_step # threads[t].step
          /\ UpdateStep(t) \/ WorkerStep(t))
         => /\ current_step' = current_step
            /\ progress' = progress
            /\ ~UpdHdr(t)]_vars

\* C24: between a step's header and the next step change the percent written
\* to the console never decreases: a bar written right after a bar of the same
\* step shows a percent at least as large.
C24_PercentMonotone ==
    [][(out.kind = "bar" /\ out'.kind = "bar" /\ out'.step = out.step)
         => out'.pct >= out.pct]_vars

\* C25: when simulate_progress(step, start_from, until) returns with
\* start_from < until and start_from < 100, the stop flag is clear.
C25_FlagClearAtReturn ==
    [][(/\ AtFg("simulate", "start")
        /\ fg'.op = "idle"
        /\ fg.start_from < fg.until
        /\ fg.start_from < 100)
         => ~stop_fake_progress']_vars

====
